---- MODULE Spec2Model ----
(***************************************************************************)
(* Orchestration layer of cyberdrop_dl: the run (main.runtime) owns a task *)
(* group; crawler tasks (BunkrrCrawler, TurbovidCrawler) resolve jobs,     *)
(* spawn child jobs for album cards and submit media through handle_file;  *)
(* every handler is wrapped by utilities.error_handling_wrapper.           *)
(*                                                                         *)
(* One action is the code a task runs between two suspension points of the *)
(* event loop (a database lookup, an HTTP request, a task switch).  What a *)
(* remote page contains is an input: each action that has just received a *)
(* page chooses, with \E, one of the paths the handler's code has for it.  *)
(***************************************************************************)
EXTENDS Integers, Sequences, FiniteSets, TLC

\* ------------------------------------------------------------------ bounds
MaxJobs == 3      \* scrape jobs of one run: seed jobs plus album children
MaxCards == 2     \* cards on one album page
MaxRes == 1       \* distinct final resources
MaxFaults == 1    \* errors the environment injects in one run
MaxPrev == 1      \* resources recorded as complete by earlier runs
MaxHttp == 1      \* requests counted per job (the count saturates)

VARIABLES
    rt,             \* position of main.runtime
    tasks,          \* every task created so far, in creation order
    njobs,          \* scrape jobs allotted so far (seeds and album cards with a link)
    faults,         \* errors injected so far
    store,          \* Completion Store: resources recorded as complete
    scrapeFailures, \* scrape_stats_progress: failure kind -> count
    dl,             \* download_progress counters
    tracebacks,     \* traceback.format_exc() entries written to the log
    unkRaised,      \* exceptions of no known class and no status raised into a wrapper
    classified,     \* <<exception, kind>> pairs handled by error_handling_wrapper
    logs,           \* entries written through log_manager: [log, link, reason, message]
    pending,        \* the exception a wrapped function raises into its wrapper, as <<e>>; <<>> when there is none
    input,          \* argument of the utility function under study (<<>> in a run)
    output          \* what the utility function returned or left behind (<<>> in a run)

vars == <<rt, tasks, njobs, faults, store, scrapeFailures, dl, tracebacks,
          unkRaised, classified, logs, pending, input, output>>

\* what a run of the crawlers never touches
aside == <<pending, input, output>>

Resources == 1..MaxRes

\* ------------------------------------------------------------- exceptions
ExcClasses == {"NoExtensionFailure", "PasswordProtected", "FailedLoginFailure",
               "InvalidContentTypeFailure", "TimeoutError", "Exception"}

\* "none": the exception object has no attribute 'status'
StatusValues == {"none", "404", "429", "500", "521"}

\* message: the exception object has an attribute 'message'
Exceptions == [cls : ExcClasses, status : StatusValues, message : BOOLEAN]

\* asyncio.CancelledError, thrown into a task at the await it is suspended on
Cancelled == [cls |-> "CancelledError", status |-> "none", message |-> FALSE]

\* TypeError, AttributeError, UnboundLocalError ...: raised by the handler's own code
BodyError == [cls |-> "Exception", status |-> "none", message |-> FALSE]

NoExtension == [cls |-> "NoExtensionFailure", status |-> "none", message |-> TRUE]

\* what a request of the run fails with: a client error with a status, a timeout,
\* or an error of no known kind
RunExceptions == { [cls |-> "Exception", status |-> "404", message |-> TRUE],
                   [cls |-> "TimeoutError", status |-> "none", message |-> FALSE],
                   BodyError }

FailureKinds == {"No File Extension", "Password Protected", "Failed Login",
                 "Invalid Content Type", "Timeout", "Unknown"}
                    \cup (StatusValues \ {"none"})

\* Variant: the status of the exception is looked at before its class.
ClassifyStatusFirst(e) ==
    IF e.status # "none" THEN e.status
    ELSE IF e.cls = "NoExtensionFailure" THEN "No File Extension"
    ELSE IF e.cls = "PasswordProtected" THEN "Password Protected"
    ELSE IF e.cls = "FailedLoginFailure" THEN "Failed Login"
    ELSE IF e.cls = "InvalidContentTypeFailure" THEN "Invalid Content Type"
    ELSE IF e.cls = "TimeoutError" THEN "Timeout"
    ELSE "Unknown"

\* The except clauses of error_handling_wrapper, in the order Python tries them.
Classify(e) ==
    IF e.cls = "NoExtensionFailure" THEN "No File Extension"
    ELSE IF e.cls = "PasswordProtected" THEN "Password Protected"
    ELSE IF e.cls = "FailedLoginFailure" THEN "Failed Login"
    ELSE IF e.cls = "InvalidContentTypeFailure" THEN "Invalid Content Type"
    ELSE IF e.cls = "TimeoutError" THEN "Timeout"
    ELSE IF e.status # "none" THEN e.status
    ELSE "Unknown"

\* Variant: the last clause re-raises what it cannot classify.
WrapperReraisesUnknown(e) == ~(e.cls = "Exception" /\ e.status = "none")

\* Variant: the last clause is a bare 'except:', which also takes a cancellation.
WrapperCatchesAll(e) == TRUE

\* 'except Exception' is the last clause: every Exception is caught, none is
\* re-raised; asyncio.CancelledError is a BaseException and passes through.
WrapperCatches(e) == e.cls \in ExcClasses

\* The exceptions of es that wrappers handle, innermost first, up to the first
\* one a wrapper lets through.
RECURSIVE CaughtPrefix(_)
CaughtPrefix(es) ==
    IF es = <<>> THEN <<>>
    ELSE IF WrapperCatches(Head(es)) THEN <<Head(es)>> \o CaughtPrefix(Tail(es))
    ELSE <<>>

RECURSIVE AddFailures(_, _)
AddFailures(sf, es) ==
    IF es = <<>> THEN sf
    ELSE AddFailures([sf EXCEPT ![Classify(Head(es))] = @ + 1], Tail(es))

IsUnknown(e) == e.cls = "Exception" /\ e.status = "none"

CountUnknown(es) == Cardinality({i \in 1..Len(es) : IsUnknown(es[i])})

\* ------------------------------------------------------------------ tasks
\* A job of the run: the scrape task created for it and, once its handler has
\* called handle_file, the download task of its media (dpc, "none" before).
ScrapeTask == [pc |-> "run", kind |-> "unset", res |-> 0, cards |-> 0, hf |-> 0,
               sc |-> FALSE, counted |-> 0, raised |-> 0, http |-> 0,
               inGroup |-> TRUE, dpc |-> "none"]

Ids == 1..Len(tasks)

Finished(t) == tasks[t].pc \in {"done", "crashed", "cancelled"}

DownloadFinished(t) == tasks[t].dpc \in {"none", "done", "cancelled"}

\* Variant: the group tracks the scrape tasks only, downloads run outside it.
GroupIdleScrapeOnly == \A t \in 1..Len(tasks) : tasks[t].inGroup => Finished(t)

\* asyncio.TaskGroup.__aexit__ waits until no task of the group is unfinished,
\* tasks created while it waits included.
GroupIdle == \A t \in Ids : tasks[t].inGroup => Finished(t) /\ DownloadFinished(t)

\* A task of the group ended with an exception: the group cancels the others.
GroupAborting == \E t \in Ids : tasks[t].inGroup /\ tasks[t].pc = "crashed"

\* runtime() is over: it has returned, or raised the errors of the group
RunEnded == rt \in {"returned", "raised"}

Init ==
    /\ rt = "init"
    /\ tasks = <<>>
    /\ njobs = 0
    /\ faults = 0
    /\ store \in SUBSET (1..MaxPrev)
    /\ scrapeFailures = [k \in FailureKinds |-> 0]
    /\ dl = [total |-> 0, completed |-> 0, previously |-> 0, skipped |-> 0, failed |-> 0]
    /\ tracebacks = 0
    /\ unkRaised = 0
    /\ classified = {}
    /\ logs = {}
    /\ pending = <<>>
    /\ input = <<>>
    /\ output = <<>>

\* ---------------------------------------------------------------- runtime
\* runtime(): 'async with asyncio.TaskGroup() as task_group', then start()
EnterTaskGroup ==
    /\ rt = "init"
    /\ rt' = "body"
    /\ UNCHANGED <<tasks, njobs, faults, store, scrapeFailures, dl, tracebacks,
                   unkRaised, classified, logs, aside>>

\* scrape_mapper.start() submits one seed job to the task group
SubmitSeed ==
    /\ rt = "body"
    /\ njobs < MaxJobs
    /\ tasks' = Append(tasks, ScrapeTask)
    /\ njobs' = njobs + 1
    /\ UNCHANGED <<rt, faults, store, scrapeFailures, dl, tracebacks, unkRaised,
                   classified, logs, aside>>

\* scrape_mapper.start() returns: the body of the 'async with' is over
StartReturns ==
    /\ rt = "body"
    /\ rt' = "exiting"
    /\ UNCHANGED <<tasks, njobs, faults, store, scrapeFailures, dl, tracebacks,
                   unkRaised, classified, logs, aside>>

\* the 'async with' block ends: runtime() returns, or raises the group's errors
RuntimeExit ==
    /\ rt = "exiting"
    /\ GroupIdle
    /\ rt' = IF GroupAborting THEN "raised" ELSE "returned"
    /\ UNCHANGED <<tasks, njobs, faults, store, scrapeFailures, dl, tracebacks,
                   unkRaised, classified, logs, aside>>

\* ------------------------------------------------------- shared bookkeeping
Min(a, b) == IF a < b THEN a ELSE b

\* The exceptions of es that are raised at all: a later one is the consequence
\* of a wrapper having swallowed the one before it.
RaisedOf(es) ==
    IF Len(CaughtPrefix(es)) < Len(es) THEN SubSeq(es, 1, Len(CaughtPrefix(es)) + 1)
    ELSE es

\* the text in parentheses of the wrapper's 'Scrape Failed: {link} (...)' line
MainLogReason(e) ==
    IF e.cls = "InvalidContentTypeFailure" THEN "Invalid Content Type Received"
    ELSE IF Classify(e) = "Unknown" THEN "str(e)"
    ELSE Classify(e)

LogEntry(l, link, reason, message) ==
    [log |-> l, link |-> link, reason |-> reason, message |-> message]

\* The log_manager call of the clause that handles e (lines 66, 70, 74, 78, 82,
\* 88, 91, 96): the scrape error log takes a link and a reason, the unsupported
\* URLs log a link only.
ManagerLogEntry(link, e) ==
    IF e.cls = "NoExtensionFailure" THEN LogEntry("scrape_error", link, " No File Extension", FALSE)
    ELSE IF e.cls = "PasswordProtected" THEN LogEntry("unsupported_urls", link, "", FALSE)
    ELSE IF e.cls = "FailedLoginFailure" THEN LogEntry("scrape_error", link, " Failed Login", FALSE)
    ELSE IF e.cls = "InvalidContentTypeFailure"
         THEN LogEntry("scrape_error", link, " Invalid Content Type Received", FALSE)
    ELSE IF e.cls = "TimeoutError" THEN LogEntry("scrape_error", link, " Timeout", FALSE)
    ELSE IF e.status # "none" THEN LogEntry("scrape_error", link, " " \o e.status, e.message)
    ELSE LogEntry("scrape_error", link, " See Log for Details", FALSE)

\* What the wrappers of a call chain write for the exceptions es (lines 64-97):
\* one line of the main log and one log_manager entry per handled exception,
\* one add_failure, and a traceback for the 'Unknown' branch.
RecordFailures(link, es) ==
    LET ces == CaughtPrefix(es) IN
    /\ logs' = logs \cup {LogEntry("main", link, MainLogReason(ces[i]), FALSE) : i \in 1..Len(ces)}
                     \cup {ManagerLogEntry(link, ces[i]) : i \in 1..Len(ces)}
    /\ scrapeFailures' = AddFailures(scrapeFailures, ces)
    /\ tracebacks' = tracebacks + Cardinality({i \in 1..Len(ces) : Classify(ces[i]) = "Unknown"})
    /\ unkRaised' = unkRaised + CountUnknown(RaisedOf(es))
    /\ classified' = classified \cup {<<ces[i], Classify(ces[i])>> : i \in 1..Len(ces)}

Out(to, es, fault) == [to |-> to, es |-> es, fault |-> fault]

\* handle_file(link, scrape_item, filename, ext): the media descriptor is
\* counted and handed to the Download Executor as a task of the run.
HandleFile(r) == [r EXCEPT !.hf = @ + 1, !.dpc = "d_check"]

\* Task t ends the code it was running with outcome o, after httpInc requests:
\*   o.to = "hf"   the handler called handle_file and returned
\*   o.to = "done" the handler returned (or its wrapper did, after o.es)
\*   o.to = "rl"   the handler called reinforced_link, which awaits its request
Finish(t, o, httpInc) ==
    LET r == tasks[t]
        ces == CaughtPrefix(o.es)
        r1 == [r EXCEPT !.counted = @ + Len(ces), !.raised = @ + o.fault,
                        !.http = Min(@ + httpInc, MaxHttp)]
    IN
    /\ faults + o.fault <= MaxFaults
    /\ faults' = faults + o.fault
    /\ RecordFailures(t, o.es)
    /\ IF Len(ces) < Len(o.es)
       THEN /\ tasks' = [tasks EXCEPT ![t] = [r1 EXCEPT !.pc =
                            IF o.es[Len(ces) + 1] = Cancelled THEN "cancelled" ELSE "crashed"]]
            /\ dl' = dl
       ELSE IF o.to = "hf"
       THEN /\ tasks' = [tasks EXCEPT ![t] = HandleFile([r1 EXCEPT !.pc = "done"])]
            /\ dl' = [dl EXCEPT !.total = @ + 1]
       ELSE /\ tasks' = [tasks EXCEPT ![t] = [r1 EXCEPT !.pc = o.to]]
            /\ dl' = dl

\* The request of a handler fails: client.get_BS4 / get_json raises e.
RequestFails == {Out("done", <<e>>, 1) : e \in RunExceptions}

\* ------------------------------------------------------------------ fetch
\* fetch(): the handler a URL path selects (lines 51-60), or none (61-63)
DispatchKinds == {"album", "none"}

\* the handlers that resolve one job to one media descriptor
HandlerKinds == {"video", "other"}

\* first suspension point of the handler of kind k
EntryPc(k) ==
    IF k = "album" THEN "get"
    ELSE IF k = "none" THEN "done"
    ELSE "check"

Dispatched(r, k) == [r EXCEPT !.kind = k, !.pc = EntryPc(k)]

\* BunkrrCrawler.fetch up to its first suspension point: an empty URL is
\* dropped, a 'get' host goes through reinforced_link, the rest is dispatched.
fetch(t) ==
    /\ tasks[t].pc = "run"
    /\ \/ \E k \in DispatchKinds :
            tasks' = [tasks EXCEPT ![t] = Dispatched(@, k)]
       \/ tasks' = [tasks EXCEPT ![t] = [@ EXCEPT !.kind = "unset", !.pc = "rl"]]
       \/ \E k \in HandlerKinds, r \in Resources :
            tasks' = [tasks EXCEPT ![t] = [Dispatched(@, k) EXCEPT !.res = r]]
    /\ UNCHANGED <<rt, njobs, faults, store, scrapeFailures, dl, tracebacks,
                   unkRaised, classified, logs, aside>>

\* TurbovidCrawler.fetch: add_task, then scrape(scrape_item)
turbovid_fetch(t) ==
    /\ tasks[t].pc = "run"
    /\ \E r \in Resources :
          tasks' = [tasks EXCEPT ![t] = [@ EXCEPT !.kind = "turbovid", !.res = r, !.pc = "check"]]
    /\ UNCHANGED <<rt, njobs, faults, store, scrapeFailures, dl, tracebacks,
                   unkRaised, classified, logs, aside>>

\* ------------------------------------------------- check_complete_from_referer
\* Completion Store lookup by referer
IsComplete(r) == r \in store

\* Variant: other() logs the finding and goes on to its request.
ReturnsUnlessOther(k) == k # "other"

\* 'if await self.check_complete_from_referer(scrape_item): return'
ReturnsWhenComplete(k) == TRUE

check_complete_from_referer(t) ==
    /\ tasks[t].pc = "check"
    /\ IF IsComplete(tasks[t].res)
       THEN /\ tasks' = [tasks EXCEPT ![t] = [@ EXCEPT !.sc = TRUE,
                            !.pc = IF ReturnsWhenComplete(tasks[t].kind) THEN "done" ELSE "get"]]
            /\ dl' = [dl EXCEPT !.total = @ + 1, !.previously = @ + 1]
       ELSE /\ tasks' = [tasks EXCEPT ![t] = [@ EXCEPT !.pc = "get"]]
            /\ dl' = dl
    /\ UNCHANGED <<rt, njobs, faults, store, scrapeFailures, tracebacks,
                   unkRaised, classified, logs, aside>>

\* ---------------------------------------------------------------- handlers
\* BunkrrCrawler.video after its request returned a page
VideoPaths ==
    { Out("hf", <<>>, 0),            \* 214, 222, 244, 254, 296: handle_file
      Out("done", <<>>, 0),          \* 225-226, 257-258: nothing usable, plain return
      Out("rl", <<>>, 0),            \* 274-275: 'get' host, reinforced_link
      Out("done", <<BodyError>>, 1)  \* 202, 243, 260: URL(None) and the like
    }

video(t) ==
    /\ tasks[t].pc = "get" /\ tasks[t].kind = "video"
    /\ \E o \in VideoPaths \cup RequestFails : Finish(t, o, 1)
    /\ UNCHANGED <<rt, njobs, store, aside>>

\* BunkrrCrawler.other after its request returned a page
OtherPaths ==
    { Out("hf", <<>>, 0),                       \* 377, 407, 461, 558, 581, 616
      Out("rl", <<>>, 0),                       \* 497-499: reinforced_link
      Out("done", <<BodyError>>, 1),            \* 387, 441, 493: raised by other itself
      Out("done", <<BodyError, BodyError>>, 1), \* extract_video_from_get_page raises (1086),
                                                \* its wrapper returns None, 348/564 cannot unpack it
      Out("hf", <<BodyError>>, 1)               \* extract_video_url_from_scripts raises, its
                                                \* wrapper returns None, extraction goes on
    }

other(t) ==
    /\ tasks[t].pc = "get" /\ tasks[t].kind = "other"
    /\ \E o \in OtherPaths \cup RequestFails : Finish(t, o, 1)
    /\ UNCHANGED <<rt, njobs, store, aside>>

\* TurbovidCrawler.scrape after client.get_json returned
ScrapePaths ==
    { Out("hf", <<>>, 0),              \* 72
      Out("done", <<>>, 0),            \* 62-64: API reports no success, plain return
      Out("done", <<NoExtension>>, 1), \* 70: the API's filename has no extension
      Out("done", <<BodyError>>, 1)    \* 66: data has no "url"
    }

scrape(t) ==
    /\ tasks[t].pc = "get" /\ tasks[t].kind = "turbovid"
    /\ \E o \in ScrapePaths \cup RequestFails : Finish(t, o, 1)
    /\ UNCHANGED <<rt, njobs, store, aside>>

\* ---------------------------------------------------------- reinforced_link
\* BunkrrCrawler.reinforced_link: what the wrapped call hands back to its caller
RlResult(link, es, fault) == [link |-> link, es |-> es, fault |-> fault]

ReinforcedPaths ==
    { RlResult("url", <<>>, 0),                      \* 1235, 1244, 1257, ..., 1524
      RlResult("none", <<>>, 0),                     \* 1483, 1519
      RlResult("none", <<BodyError>>, 1),            \* 1272, 1279: URL(None)
      RlResult("none", <<BodyError, BodyError>>, 1)  \* extract_video_from_get_page raises,
                                                     \* 1314/1488 cannot unpack None
    } \cup { RlResult("none", <<e>>, 1) : e \in RunExceptions }  \* 1228: the request fails

\* Variant: video() requests its page again until reinforced_link yields a link.
VideoRetriesAfterNone == "get"

\* video, 276-277: 'if not link: return'
VideoAfterNone == "done"

\* What the caller of kind k does with the link reinforced_link returned.
Continuation(k, link) ==
    IF k = "video"
    THEN IF link = "none"
         THEN { Out(VideoAfterNone, <<>>, 0) }
         ELSE { Out("hf", <<>>, 0),               \* 278, 296
                Out("done", <<NoExtension>>, 1) } \* 278: link.name has no extension
    ELSE IF link = "none"
         THEN { Out("hf", <<>>, 0),                        \* 503-558, or 564-616
                Out("done", <<BodyError, BodyError>>, 1) } \* 564: extraction raises
         ELSE { Out("hf", <<>>, 0) }                       \* 530-558

reinforced_link(t) ==
    /\ tasks[t].pc = "rl"
    /\ \E p \in ReinforcedPaths :
          IF tasks[t].kind = "unset"
          THEN \* called by fetch (42-48): no link ends the job, a link is dispatched
               IF p.link = "none"
               THEN Finish(t, Out("done", p.es, p.fault), 0)
               ELSE /\ \/ \E k \in DispatchKinds :
                            tasks' = [tasks EXCEPT ![t] = Dispatched(@, k)]
                       \/ \E k \in HandlerKinds, r \in Resources :
                            tasks' = [tasks EXCEPT ![t] = [Dispatched(@, k) EXCEPT !.res = r]]
                    /\ UNCHANGED <<faults, scrapeFailures, dl, tracebacks, unkRaised,
                                   classified, logs>>
          ELSE \E c \in Continuation(tasks[t].kind, p.link) :
                  Finish(t, Out(c.to, p.es \o c.es, p.fault + c.fault), 1)
    /\ UNCHANGED <<rt, njobs, store, aside>>

\* ------------------------------------------------------------------ album
\* BunkrrCrawler.album up to the card loop: the request, the title, the cards
album(t) ==
    /\ tasks[t].pc = "get" /\ tasks[t].kind = "album"
    /\ \/ \E o \in RequestFails : Finish(t, o, 1)
       \/ /\ \E n \in 0..MaxCards :
               tasks' = [tasks EXCEPT ![t] = [@ EXCEPT !.cards = n,
                                   !.pc = IF n = 0 THEN "done" ELSE "card"]]
          /\ UNCHANGED <<faults, scrapeFailures, dl, tracebacks, unkRaised, classified,
                         logs>>
    /\ UNCHANGED <<rt, njobs, store, aside>>

\* Variant: the child is created with asyncio.create_task, outside the group.
ChildDetached == FALSE

\* 'self.manager.task_group.create_task(self.run(new_scrape_item))'
ChildInGroup == TRUE

\* One pass of 'for card_listing in card_listings' (106-173)
album_card(t) ==
    /\ tasks[t].pc = "card"
    /\ LET r == [tasks[t] EXCEPT !.cards = @ - 1,
                                 !.pc = IF tasks[t].cards = 1 THEN "done" ELSE "card"]
       IN
       \/ \* 157-168: a card with a link becomes a new job of the task group
          /\ njobs < MaxJobs
          /\ tasks' = Append([tasks EXCEPT ![t] = r],
                             [ScrapeTask EXCEPT !.inGroup = ChildInGroup])
          /\ njobs' = njobs + 1
          /\ faults' = faults
       \/ \* 116-118: no link element, 'continue'
          /\ tasks' = [tasks EXCEPT ![t] = r]
          /\ UNCHANGED <<njobs, faults>>
       \/ \* 170-173: 'except Exception' prints the error and goes on
          /\ faults < MaxFaults
          /\ tasks' = [tasks EXCEPT ![t] = [r EXCEPT !.raised = @ + 1]]
          /\ faults' = faults + 1
          /\ njobs' = njobs
    /\ UNCHANGED <<rt, store, scrapeFailures, dl, tracebacks, unkRaised, classified, logs, aside>>

\* print_download_progress: the 'In Progress' figure
InProgress == dl.total - (dl.completed + dl.previously + dl.skipped + dl.failed)

\* ------------------------------------------------------- Download Executor
\* download(descriptor): a complete resource is short-circuited, a descriptor
\* the configuration excludes is skipped, the rest is streamed
download_check(t) ==
    /\ tasks[t].dpc = "d_check"
    /\ \/ /\ IsComplete(tasks[t].res)
          /\ dl' = [dl EXCEPT !.previously = @ + 1]
          /\ tasks' = [tasks EXCEPT ![t] = [@ EXCEPT !.dpc = "done"]]
       \/ /\ ~IsComplete(tasks[t].res)
          /\ \/ /\ dl' = [dl EXCEPT !.skipped = @ + 1]
                /\ tasks' = [tasks EXCEPT ![t] = [@ EXCEPT !.dpc = "done"]]
             \/ /\ dl' = dl
                /\ tasks' = [tasks EXCEPT ![t] = [@ EXCEPT !.dpc = "d_stream"]]
    /\ UNCHANGED <<rt, njobs, faults, store, scrapeFailures, tracebacks, unkRaised,
                   classified, logs, aside>>

\* the stream ends: the file is complete and recorded, or the download failed
download_stream(t) ==
    /\ tasks[t].dpc = "d_stream"
    /\ tasks' = [tasks EXCEPT ![t] = [@ EXCEPT !.dpc = "done"]]
    /\ \/ /\ store' = store \cup {tasks[t].res}
          /\ dl' = [dl EXCEPT !.completed = @ + 1]
       \/ /\ store' = store
          /\ dl' = [dl EXCEPT !.failed = @ + 1]
    /\ UNCHANGED <<rt, njobs, faults, scrapeFailures, tracebacks, unkRaised, classified, logs, aside>>

\* ------------------------------------------------------------------- run
Next ==
    \/ EnterTaskGroup
    \/ SubmitSeed
    \/ StartReturns
    \/ RuntimeExit
    \/ \E t \in Ids : fetch(t)
    \/ \E t \in Ids : turbovid_fetch(t)
    \/ \E t \in Ids : reinforced_link(t)
    \/ \E t \in Ids : check_complete_from_referer(t)
    \/ \E t \in Ids : video(t)
    \/ \E t \in Ids : other(t)
    \/ \E t \in Ids : scrape(t)
    \/ \E t \in Ids : album(t)
    \/ \E t \in Ids : album_card(t)
    \/ \E t \in Ids : download_check(t)
    \/ \E t \in Ids : download_stream(t)

Spec == Init /\ [][Next]_vars

\* The event loop runs every task that is ready, and the run's own coroutine.
LiveSpec == Spec /\ WF_vars(Next)

\* ------------------------------------------------------- operator interrupt
\* main(): asyncio.run cancels the task of director(), which is awaiting
\* runtime(); the TaskGroup of runtime() receives the CancelledError, cancels
\* every task it holds and waits for them.  The card loop of album() has no
\* suspension point, so no task is inside it when the event loop does this.
Interrupt ==
    /\ rt \in {"body", "exiting"}
    /\ \A t \in Ids : tasks[t].pc # "card"
    /\ rt' = "cancelling"
    /\ UNCHANGED <<tasks, njobs, faults, store, scrapeFailures, dl, tracebacks,
                   unkRaised, classified, logs, aside>>

\* a cancelled scrape task resumes: CancelledError is raised at its await, in
\* the wrapped handler ("check", "get", "rl") or before the handler ("run")
cancel_scrape(t) ==
    /\ rt = "cancelling"
    /\ tasks[t].inGroup
    /\ \/ /\ tasks[t].pc \in {"check", "get", "rl"}
          /\ Finish(t, Out("done", <<Cancelled>>, 0), 0)
       \/ /\ tasks[t].pc = "run"
          /\ tasks' = [tasks EXCEPT ![t] = [@ EXCEPT !.pc = "cancelled"]]
          /\ UNCHANGED <<faults, scrapeFailures, dl, tracebacks, unkRaised, classified, logs>>
    /\ UNCHANGED <<rt, njobs, store, aside>>

\* a cancelled download task resumes: the stream stops, nothing is recorded
cancel_download(t) ==
    /\ rt = "cancelling"
    /\ tasks[t].inGroup
    /\ tasks[t].dpc \in {"d_check", "d_stream"}
    /\ tasks' = [tasks EXCEPT ![t] = [@ EXCEPT !.dpc = "cancelled"]]
    /\ UNCHANGED <<rt, njobs, faults, store, scrapeFailures, dl, tracebacks,
                   unkRaised, classified, logs, aside>>

\* every task of the group has ended: runtime() raises the CancelledError
RuntimeCancelled ==
    /\ rt = "cancelling"
    /\ GroupIdle
    /\ rt' = "cancelled"
    /\ UNCHANGED <<tasks, njobs, faults, store, scrapeFailures, dl, tracebacks,
                   unkRaised, classified, logs, aside>>

\* a run that the operator may interrupt; a cancelled task takes no other step
CancelNext ==
    \/ rt \notin {"cancelling", "cancelled"} /\ Next
    \/ Interrupt
    \/ \E t \in Ids : cancel_scrape(t)
    \/ \E t \in Ids : cancel_download(t)
    \/ RuntimeCancelled

CancelSpec == Init /\ [][CancelNext]_vars

\* ------------------------------------------------- the wrapper on its own
\* One call of a function decorated with error_handling_wrapper, for every
\* exception the function can raise.
WrapperInit ==
    /\ rt = "call"
    /\ tasks = <<>>
    /\ njobs = 0
    /\ faults = 0
    /\ store = {}
    /\ scrapeFailures = [k \in FailureKinds |-> 0]
    /\ dl = [total |-> 0, completed |-> 0, previously |-> 0, skipped |-> 0, failed |-> 0]
    /\ tracebacks = 0
    /\ unkRaised = 0
    /\ classified = {}
    /\ logs = {}
    /\ pending \in {<<e>> : e \in Exceptions}
    /\ input = <<>>
    /\ output = <<>>

error_handling_wrapper ==
    /\ rt = "call"
    /\ Len(pending) = 1
    /\ RecordFailures(0, pending)
    /\ pending' = <<>>
    /\ rt' = IF WrapperCatches(pending[1]) THEN "returned" ELSE "raised"
    /\ UNCHANGED <<tasks, njobs, faults, store, dl, input, output>>

WrapperNext == error_handling_wrapper

WrapperSpec == WrapperInit /\ [][WrapperNext]_vars

\* ============================================================ utilities
\* The functions of utils/utilities.py that work on one name or one directory
\* are studied one call at a time: Init draws the argument, the action applies
\* the function.  No run is in progress.
NoRun ==
    /\ tasks = <<>>
    /\ njobs = 0
    /\ faults = 0
    /\ store = {}
    /\ scrapeFailures = [k \in FailureKinds |-> 0]
    /\ dl = [total |-> 0, completed |-> 0, previously |-> 0, skipped |-> 0, failed |-> 0]
    /\ tracebacks = 0
    /\ unkRaised = 0
    /\ classified = {}
    /\ logs = {}
    /\ pending = <<>>

runVars == <<tasks, njobs, faults, store, scrapeFailures, dl, tracebacks, unkRaised,
             classified, logs, pending>>

\* ---------------------------------------------------------------- strings
\* A Python str is the sequence of its characters.
Max(S) == CHOOSE x \in S : \A y \in S : y <= x

\* all strings over the characters of A with lo..hi characters
Strings(A, lo, hi) == UNION {[1..n -> A] : n \in lo..hi}

\* the positions at which sep occurs in str
Occurrences(str, sep) ==
    {i \in 1..(Len(str) - Len(sep) + 1) : SubSeq(str, i, i + Len(sep) - 1) = sep}

\* 'sep in str'
Contains(str, sep) == Occurrences(str, sep) # {}

\* str.rsplit(sep, 1)[0]
RSplitHead(str, sep) ==
    IF Contains(str, sep) THEN SubSeq(str, 1, Max(Occurrences(str, sep)) - 1) ELSE str

\* --------------------------------------------------------------- remove_id
MaxBase == 3      \* characters of a base name
MaxId == 2        \* characters of a generated id

NameChars == {"a", "-", ".", "j"}
BaseNames == Strings(NameChars, 1, MaxBase)
GeneratedIds == Strings({"a", "1"}, 1, MaxId)
Extensions == {<<".", "j">>}

\* Variant: the last '-' part is kept, whatever the policy.
remove_id_keeps(policy, filename, ext) == <<filename, filename>>

\* remove_id(manager, filename, ext); policy is the setting
\* remove_generated_id_from_filenames
remove_id(policy, filename, ext) ==
    IF policy
    THEN LET noExt == RSplitHead(filename, ext)
             noId == RSplitHead(noExt, <<"-">>)
         IN <<filename, IF Contains(noId, ext) THEN noId ELSE noId \o ext>>
    ELSE <<filename, filename>>

RemoveIdInit ==
    /\ NoRun
    /\ rt = "call"
    /\ input \in [b : BaseNames, id : GeneratedIds, ext : Extensions, policy : BOOLEAN]
    /\ output = <<>>

\* the name with the generated id and the name without it are both canonicalized,
\* and the canonical name is canonicalized again
RemoveIdCall ==
    /\ rt = "call"
    /\ output' = [withId |-> remove_id(input.policy, input.b \o <<"-">> \o input.id \o input.ext,
                                       input.ext),
                  plain |-> remove_id(input.policy, input.b \o input.ext, input.ext),
                  again |-> remove_id(input.policy,
                                      remove_id(input.policy, input.b \o input.ext, input.ext)[2],
                                      input.ext)]
    /\ rt' = "returned"
    /\ UNCHANGED <<runVars, input>>

RemoveIdNext == RemoveIdCall

RemoveIdSpec == RemoveIdInit /\ [][RemoveIdNext]_vars

\* ------------------------------------------------------------ the limiter
BurstSize == 50   \* tasks that enter 'async with self.request_limiter' at the same instant
MaxClock == 45    \* ticks counted (the count saturates)

\* Variant: AsyncLimiter(20, 1)
request_limiter_doubled == [max_rate |-> 20, time_period |-> 1]

\* Variant: AsyncLimiter(0, 1)
request_limiter_closed == [max_rate |-> 0, time_period |-> 1]

\* BunkrrCrawler.__init__: self.request_limiter = AsyncLimiter(10, 1)
request_limiter == [max_rate |-> 10, time_period |-> 1]

\* The limiter is a leaky bucket of capacity max_rate that leaks max_rate units per
\* time_period.  A tick is the time one unit takes to leak, time_period / max_rate
\* seconds: level is the content of the bucket, clock the ticks since the tasks
\* arrived, acquired and rejected count the acquisitions that ended.
LimiterInit ==
    /\ NoRun
    /\ rt = "limiter"
    /\ input \in 1..BurstSize
    /\ output = [level |-> 0, clock |-> 0, acquired |-> 0, rejected |-> 0]

\* acquire(1) of a waiting task: more than the capacity is refused with an error,
\* a full bucket makes the task wait, otherwise the unit is added
LimiterAcquire ==
    /\ rt = "limiter"
    /\ output.acquired + output.rejected < input
    /\ IF 1 > request_limiter.max_rate
       THEN output' = [output EXCEPT !.rejected = @ + 1]
       ELSE /\ output.level + 1 <= request_limiter.max_rate
            /\ output' = [output EXCEPT !.level = @ + 1, !.acquired = @ + 1]
    /\ UNCHANGED <<rt, runVars, input>>

\* one tick passes: one unit leaks
LimiterTick ==
    /\ rt = "limiter"
    /\ output' = [output EXCEPT !.clock = Min(@ + 1, MaxClock),
                                !.level = IF @ > 0 THEN @ - 1 ELSE 0]
    /\ UNCHANGED <<rt, runVars, input>>

LimiterNext == LimiterAcquire \/ LimiterTick

\* time passes and the event loop resumes a waiting task when the bucket has room
LimiterSpec == LimiterInit /\ [][LimiterNext]_vars /\ WF_vars(LimiterNext)

\* -------------------------------------------------------- the scrape item
\* What fetch and the handlers do to the ScrapeItem they are given.  A URL is
\* its host and the two last parts of its path, "" for a part it does not
\* have; the empty URL, and None, is the record NoUrl.
Urls ==
    [host : {"bunkr.sk", "bunkr.ru", "cdn.bunkr.ru", "i-pizza.bunkr.ru", "get.bunkr.su",
             "cyberdrop.me"},
     dir : {"", "a", "v", "d", "f"},
     name : {"", "a", "x", "x.mp4", "x.jpg", "x.zip"}]
NoUrl == [host |-> "", dir |-> "", name |-> ""]

primary_base_domain == "bunkr.sk"

\* url.parts, without the root
Parts(url) == {url.dir, url.name} \ {""}

\* url.suffix.lower()
Suffix(url) ==
    IF url.name = "x.mp4" THEN ".mp4"
    ELSE IF url.name = "x.jpg" THEN ".jpg"
    ELSE IF url.name = "x.zip" THEN ".zip"
    ELSE ""

\* the names of cdn_domains (1530-1538) that a first label of Urls can start
\* with, and 'burger', 'media-files'
cdn_domains ==
    {<<"p", "i", "z", "z", "a">>, <<"i", "-", "p", "i", "z", "z", "a">>,
     <<"b", "u", "r", "g", "e", "r">>, <<"c", "d", "n", "-", "p", "i", "z", "z", "a">>,
     <<"c", "d", "n">>, <<"c">>, <<"m", "e", "d", "i", "a", "-", "f", "i", "l", "e", "s">>}

\* domain_part = host_parts[0] of url.host.split('.'); every host of Urls has several labels
host_parts_0(host) ==
    CASE host \in {"bunkr.sk", "bunkr.ru"} -> <<"b", "u", "n", "k", "r">>
      [] host = "cdn.bunkr.ru" -> <<"c", "d", "n">>
      [] host = "i-pizza.bunkr.ru" -> <<"i", "-", "p", "i", "z", "z", "a">>
      [] host = "get.bunkr.su" -> <<"g", "e", "t">>
      [] host = "cyberdrop.me" -> <<"c", "y", "b", "e", "r", "d", "r", "o", "p">>

\* str.startswith(prefix)
StartsWith(str, prefix) ==
    Len(str) >= Len(prefix) /\ SubSeq(str, 1, Len(prefix)) = prefix

\* get_stream_link, 1547-1558: the first label of the host is a CDN name, or
\* starts with one; the test of the TLD (1559-1564) sets is_cdn only where it
\* is set already
IsCdnHost(host) ==
    \E cdn \in cdn_domains :
        \/ host_parts_0(host) = cdn
        \/ StartsWith(host_parts_0(host), cdn \o <<"-">>)
        \/ StartsWith(host_parts_0(host), cdn)

\* get_stream_link: a CDN link to a file becomes the page of the file
get_stream_link(url) ==
    IF url = NoUrl \/ ~IsCdnHost(url.host) \/ Suffix(url) = "" THEN url
    ELSE [host |-> primary_base_domain,
          dir |-> IF Suffix(url) = ".mp4" THEN "v" ELSE "d",
          name |-> url.name]

\* self.primary_base_domain.with_path(scrape_item.url.path)
WithPrimaryDomain(url) == [url EXCEPT !.host = primary_base_domain]

\* Variant: the 'v' test comes first.
HandlerOfVideoFirst(url) ==
    IF "v" \in Parts(url) THEN "video"
    ELSE IF "a" \in Parts(url) THEN "album"
    ELSE "other"

\* fetch, 51-60: the handler the path selects
HandlerOf(url) ==
    IF "a" \in Parts(url) THEN "album"
    ELSE IF "v" \in Parts(url) THEN "video"
    ELSE "other"

\* what reinforced_link can hand back to fetch for a 'get' host
ReinforcedLinks == {NoUrl, [host |-> "cdn.bunkr.ru", dir |-> "", name |-> "x.mp4"]}

\* create_scrape_item(parent, link, "", True, album_id, date): a new item
ChildItem(parent, link) == [url |-> link, parent_title |-> parent.parent_title]

\* Variant: the early returns of fetch leave the progress task behind.
EarlyReturnKeepsTask == FALSE

\* fetch, 34 and 45: remove_task(task_id) before the early return
EarlyReturnRemovesTask == TRUE

\* get_stream_link on any URL, and on the URL it returned
StreamInit ==
    /\ NoRun
    /\ rt = "call"
    /\ input \in Urls \cup {NoUrl}
    /\ output = [first |-> NoUrl, second |-> NoUrl]

get_stream_link_twice ==
    /\ rt = "call"
    /\ output' = [first |-> get_stream_link(input),
                  second |-> get_stream_link(get_stream_link(input))]
    /\ rt' = "returned"
    /\ UNCHANGED <<runVars, input>>

StreamSpec == StreamInit /\ [][get_stream_link_twice]_vars

\* the jobs: a Bunkrr job with any URL, a Turbovid job with the URL of a video
ItemInit ==
    /\ NoRun
    /\ rt = "given"
    /\ input \in [crawler : {"bunkrr"}, url : Urls \cup {NoUrl}, parent_title : {"", "thread"}]
            \cup [crawler : {"turbovid"}, url : {u \in Urls : u.name = "x"}, parent_title : {""}]
    /\ output = [item |-> [url |-> input.url, parent_title |-> input.parent_title],
                 handler |-> "none", children |-> {}, calls |-> 0, failed |-> FALSE,
                 shown |-> 0, removes |-> 0]

\* fetch up to the dispatch: add_task; BunkrrCrawler.fetch drops an empty URL
\* (31-35), replaces the item's url by its stream link (37) and, for a 'get'
\* host, by what reinforced_link returns (42-47)
ItemFetch ==
    /\ rt = "given"
    /\ LET u == get_stream_link(output.item.url)
           added == [output EXCEPT !.shown = @ + 1]
           dropped == IF EarlyReturnRemovesTask
                      THEN [added EXCEPT !.shown = @ - 1, !.removes = @ + 1]
                      ELSE added
       IN
       IF input.crawler = "turbovid"
       THEN output' = added /\ rt' = "fetched"
       ELSE IF output.item.url = NoUrl
       THEN output' = dropped /\ rt' = "returned"
       ELSE IF u.host = "get.bunkr.su"
       THEN \E l \in ReinforcedLinks :
               IF l = NoUrl
               THEN output' = [dropped EXCEPT !.item.url = l] /\ rt' = "returned"
               ELSE output' = [added EXCEPT !.item.url = get_stream_link(l)] /\ rt' = "fetched"
       ELSE output' = [added EXCEPT !.item.url = u] /\ rt' = "fetched"
    /\ UNCHANGED <<runVars, input>>

\* the rest of fetch: the handler the path selects is awaited, if there is a
\* path (50-63), and remove_task ends fetch (65); TurbovidCrawler.fetch awaits
\* scrape.  The handler's first line (70, 177, 301) moves the item to the
\* primary domain; album adds its title to the item (96) and derives the
\* children; a handler that fails returns from its wrapper.
ItemHandler ==
    /\ rt = "fetched"
    /\ LET h == HandlerOf(output.item.url)
           moved == [output.item EXCEPT !.url = WithPrimaryDomain(@)]
           titled == [moved EXCEPT !.parent_title = @ \o "/album"]
           ended == [output EXCEPT !.shown = @ - 1, !.removes = @ + 1]
           called == [ended EXCEPT !.calls = @ + 1]
       IN
       IF input.crawler = "turbovid"
       THEN \E failed \in BOOLEAN :
               output' = [called EXCEPT !.handler = "scrape", !.failed = failed]
       ELSE IF Parts(output.item.url) = {}
       THEN output' = ended
       ELSE \/ output' = [called EXCEPT !.handler = h, !.failed = TRUE, !.item = moved]
            \/ /\ h = "album"
               /\ \E links \in SUBSET {[host |-> "bunkr.sk", dir |-> "f", name |-> "x"],
                                       [host |-> "bunkr.sk", dir |-> "v", name |-> "x.mp4"]} :
                     output' = [called EXCEPT !.handler = h, !.item = titled,
                                   !.children = {ChildItem(titled, l) : l \in links}]
            \/ /\ h # "album"
               /\ output' = [called EXCEPT !.handler = h, !.item = moved]
    /\ rt' = "returned"
    /\ UNCHANGED <<runVars, input>>

ItemNext == ItemFetch \/ ItemHandler

ItemSpec == ItemInit /\ [][ItemNext]_vars

\* ------------------------------------------------------ file and folder names
MAX_NAME_LENGTHS == [FILE |-> 95, FOLDER |-> 60]

MaxStem == 96     \* characters of the longest run of letters in a file name
MaxTitle == 61    \* characters of the longest run of letters in a folder title

\* ch * n
Rep(ch, n) == [i \in 1..n |-> ch]

\* the characters of str at the positions in idx, in order
AtPositions(str, idx) ==
    [k \in 1..Cardinality(idx) |->
        str[CHOOSE i \in idx : Cardinality({j \in idx : j <= i}) = k]]

\* str.strip()
Strip(str) ==
    LET solid == {i \in 1..Len(str) : str[i] \notin {" ", "\t", "\n"}} IN
    IF solid = {} THEN <<>>
    ELSE SubSeq(str, CHOOSE i \in solid : \A j \in solid : i <= j, Max(solid))

\* str.rstrip(".")
RStripDots(str) ==
    LET solid == {i \in 1..Len(str) : str[i] # "."} IN
    IF solid = {} THEN <<>> ELSE SubSeq(str, 1, Max(solid))

\* re.sub(ch + '+', ch, str) and re.sub(r'\.{2,}', '.', str): a run of ch
\* becomes one ch
Squeeze(str, ch) ==
    AtPositions(str, {i \in 1..Len(str) : ~(str[i] = ch /\ i > 1 /\ str[i - 1] = ch)})

\* str.lower(), over the letters the names here are made of
Lower(str) == [i \in 1..Len(str) |-> IF str[i] = "M" THEN "m" ELSE str[i]]

\* the characters sanitize removes
IllegalChars == {"<", ">", ":", "\"", "/", "\\", "|", "?", "*", "'"}

\* sanitize(name)
sanitize(name) == Strip(SelectSeq(name, LAMBDA ch : ch \notin IllegalChars))

\* str.isnumeric(), over the characters the names here are made of
IsNumeric(str) == str # <<>> /\ \A i \in 1..Len(str) : str[i] = "1"

\* Variant: an extension of any length is accepted.
get_filename_and_ext_any(filename, forum) ==
    LET head == RSplitHead(filename, <<".">>)
        ext == <<".">> \o Lower(SubSeq(filename, Len(head) + 2, Len(filename)))
    IN
    IF filename = <<>> \/ ~Contains(filename, <<".">>)
    THEN [raised |-> TRUE, filename |-> <<>>, ext |-> <<>>]
    ELSE [raised |-> FALSE, filename |-> head \o ext, ext |-> ext]

\* get_filename_and_ext(filename, forum); raised means NoExtensionFailure.
\* In forum mode a numeric extension is dropped and the name is split at its
\* last '-' instead.
get_filename_and_ext(filename, forum) ==
    LET dotHead == RSplitHead(filename, <<".">>)
        dotTail == SubSeq(filename, Len(dotHead) + 2, Len(filename))
        resplit == IsNumeric(dotTail) /\ forum
        dashed == resplit /\ Contains(dotHead, <<"-">>)
        head == IF dashed THEN RSplitHead(dotHead, <<"-">>) ELSE dotHead
        tail == IF ~resplit THEN dotTail
                ELSE IF dashed THEN SubSeq(dotHead, Len(head) + 2, Len(dotHead))
                ELSE dotHead
        ext == <<".">> \o Lower(tail)
        base == RStripDots(Strip(SubSeq(head, 1, Min(Len(head), MAX_NAME_LENGTHS.FILE))))
    IN
    IF filename = <<>> \/ ~Contains(filename, <<".">>) \/ Len(tail) > 5
    THEN [raised |-> TRUE, filename |-> <<>>, ext |-> <<>>]
    ELSE [raised |-> FALSE, filename |-> sanitize(base \o ext), ext |-> ext]

\* title_text.split('|')[0].strip() if '|' in title_text, else the title
TitleName(title) ==
    IF Contains(title, <<"|">>)
    THEN Strip(SubSeq(title, 1, (CHOOSE i \in Occurrences(title, <<"|">>) :
                                    \A j \in Occurrences(title, <<"|">>) : i <= j) - 1))
    ELSE Strip(title)

\* the names a page offers: a run of letters between a prefix and a suffix
PageNames ==
    {pre \o Rep("a", n) \o suf :
        pre \in {<<>>, <<"'">>},
        n \in {1, MaxStem - 1, MaxStem},
        suf \in {<<>>, <<".", "M", "p", "4">>}}

PageTitles == PageNames \cup {n \o <<" ", "|", " ", "B">> : n \in PageNames}

\* get_filename_and_ext on its own, for every short name
MaxName == 7

ExtInit ==
    /\ NoRun
    /\ rt = "call"
    /\ input \in [name : Strings({"a", ".", "1", "-"}, 0, MaxName), forum : BOOLEAN]
    /\ output = <<>>

GetFilenameAndExtCall ==
    /\ rt = "call"
    /\ output' = get_filename_and_ext(input.name, input.forum)
    /\ rt' = IF output'.raised THEN "raised" ELSE "returned"
    /\ UNCHANGED <<runVars, input>>

ExtSpec == ExtInit /\ [][GetFilenameAndExtCall]_vars

\* BunkrrCrawler.video, 263-296: the name of the link, else of the title, else
\* the last part of the page's URL as an .mp4
HandedByVideo(page) ==
    LET byLink == get_filename_and_ext(page.link_name, FALSE)
        byTitle == get_filename_and_ext(TitleName(page.title), FALSE)
    IN
    IF ~byLink.raised THEN byLink
    ELSE IF Contains(page.title, <<".">>) /\ ~byTitle.raised THEN byTitle
    ELSE [raised |-> FALSE, filename |-> page.url_part, ext |-> <<".", "m", "p", "4">>]

\* BunkrrCrawler.other, 388-407: the name of the image, else of the heading,
\* else the heading as it is
HandedByOther(page) ==
    LET byLink == get_filename_and_ext(page.link_name, FALSE)
        heading == Strip(page.title)
        byTitle == get_filename_and_ext(heading, FALSE)
    IN
    IF ~byLink.raised THEN byLink
    ELSE IF ~byTitle.raised THEN byTitle
    ELSE [raised |-> FALSE, filename |-> heading,
          ext |-> IF Contains(heading, <<".", "w", "e", "b", "p">>)
                  THEN <<".", "w", "e", "b", "p">> ELSE <<".", "j", "p", "g">>]

\* TurbovidCrawler.scrape, 68-72: the API's filename, else '<video_id>.mp4'
HandedByScrape(page) ==
    get_filename_and_ext(IF page.link_name # <<>> THEN page.link_name
                         ELSE page.url_part \o <<".", "m", "p", "4">>, FALSE)

FilenameInit ==
    /\ NoRun
    /\ rt = "page"
    /\ input \in [handler : {"video", "other", "scrape"},
                  link_name : PageNames \cup {<<>>}, title : PageTitles, url_part : PageNames]
    /\ output = <<>>

\* the handler reaches its handle_file call, or NoExtensionFailure leaves it
HandleFileCall ==
    /\ rt = "page"
    /\ output' = IF input.handler = "video" THEN HandedByVideo(input)
                 ELSE IF input.handler = "other" THEN HandedByOther(input)
                 ELSE HandedByScrape(input)
    /\ rt' = IF output'.raised THEN "raised" ELSE "handed"
    /\ UNCHANGED <<runVars, input>>

FilenameSpec == FilenameInit /\ [][HandleFileCall]_vars

\* str.split(sep)[k], sep one character, for k = 0 and k = 1
SplitPart(str, sep, k) ==
    LET at == Occurrences(str, <<sep>>) \cup {Len(str) + 1}
        first == CHOOSE i \in at : \A j \in at : i <= j
        later == {i \in at : i > first}
        second == CHOOSE i \in later : \A j \in later : i <= j
    IN
    IF k = 0 THEN SubSeq(str, 1, first - 1) ELSE SubSeq(str, first + 1, second - 1)

\* sanitize_folder(title)
sanitize_folder(title) ==
    LET unlined == Strip(SelectSeq(title, LAMBDA ch : ch # "\n"))
        untabbed == Strip(SelectSeq(unlined, LAMBDA ch : ch # "\t"))
        spaced == Squeeze(untabbed, " ")
        dashed == [i \in 1..Len(spaced) |->
                      IF spaced[i] \in {"\\", "*", "?", ":", "\"", "<", ">", "|", "/"}
                      THEN "-" ELSE spaced[i]]
        cleaned == Strip(RStripDots(Squeeze(dashed, ".")))
        new_title == Strip(SubSeq(Strip(SplitPart(cleaned, "(", 0)), 1,
                                  Min(Len(Strip(SplitPart(cleaned, "(", 0))),
                                      MAX_NAME_LENGTHS.FOLDER)))
        domain_part == Strip(SplitPart(cleaned, "(", 1))
    IN
    IF Contains(cleaned, <<"(">>) /\ Contains(cleaned, <<")">>)
    THEN new_title \o <<" ", "(">> \o domain_part
    ELSE Strip(SubSeq(cleaned, 1, Min(Len(cleaned), MAX_NAME_LENGTHS.FOLDER)))

FolderInit ==
    /\ NoRun
    /\ rt = "call"
    /\ input \in {pre \o Rep("a", n) \o suf :
                     pre \in {<<>>, <<" ">>, <<":">>, <<"\t">>},
                     n \in {1, MaxTitle - 1, MaxTitle},
                     suf \in {<<>>, <<".", ".">>, <<" ", " ", "b">>, <<")">>,
                              <<" ", "(", "b", ")">>, <<"(", "b", ")", " ", "(", "c", ")">>}}
    /\ output = <<>>

SanitizeFolderCall ==
    /\ rt = "call"
    /\ output' = sanitize_folder(input)
    /\ rt' = "returned"
    /\ UNCHANGED <<runVars, input>>

FolderSpec == FolderInit /\ [][SanitizeFolderCall]_vars

\* ------------------------------------------------- partial files and folders
\* The download directory after a run: the directories the crawlers made for
\* albums, and in each the finished files and the downloader's '.part' files.
\* A directory is named by its path; DirParent gives the directory it is in.
download_dir == "D"
DirParent == [d \in {"D/A", "D/A/B", "D/C"} |-> IF d = "D/A/B" THEN "D/A" ELSE "D"]
FileNames == {"x.part", "y.jpg"}

\* the trees: download_dir, some directories each inside a directory of the
\* tree, and files in them
Trees ==
    {t \in [dirs : SUBSET (DOMAIN DirParent \cup {download_dir}),
            files : SUBSET ((DOMAIN DirParent \cup {download_dir}) \X FileNames)] :
        /\ download_dir \in t.dirs
        /\ \A d \in t.dirs \ {download_dir} : DirParent[d] \in t.dirs
        /\ \A f \in t.files : f[1] \in t.dirs}

\* download_dir.rglob("*.part")
PartFiles(tree) == {f \in tree.files : f[2] = "x.part"}

\* os.listdir(d)
ListDir(tree, d) ==
    {f[2] : f \in {g \in tree.files : g[1] = d}}
        \cup {c \in tree.dirs \ {download_dir} : DirParent[c] = d}

\* purge_dir(dirname): the directories that are empty when the tree is walked
\* are removed
purge_dir(tree) ==
    [tree EXCEPT !.dirs = {d \in @ : ListDir(tree, d) # {}}]

\* Variant: the partial files are kept whatever the setting.
UnlinkPartialsNever(delete_partial_files, tree) == tree

\* 299-303: with delete_partial_files every '*.part' file is unlinked
UnlinkPartials(delete_partial_files, tree) ==
    IF delete_partial_files THEN [tree EXCEPT !.files = @ \ PartFiles(tree)] ELSE tree

PartialsInit ==
    /\ NoRun
    /\ rt = "call"
    /\ input \in [delete_partial_files : BOOLEAN, skip_check_for_partial_files : BOOLEAN,
                  skip_check_for_empty_folders : BOOLEAN, tree : Trees]
    /\ output = [tree |-> input.tree, reported |-> FALSE]

check_partials_and_empty_folders ==
    /\ rt = "call"
    /\ LET unlinked == UnlinkPartials(input.delete_partial_files, input.tree) IN
       output' = [tree |-> IF input.skip_check_for_empty_folders THEN unlinked
                           ELSE purge_dir(unlinked),
                  reported |-> /\ ~input.delete_partial_files
                               /\ ~input.skip_check_for_partial_files
                               /\ PartFiles(input.tree) # {}]
    /\ rt' = "returned"
    /\ UNCHANGED <<runVars, input>>

PartialsSpec == PartialsInit /\ [][check_partials_and_empty_folders]_vars

\* ------------------------------------------------------ the progress reporter
\* director in no-ui mode: periodic_progress_updates is a task of its own,
\* created before runtime() is awaited and cancelled when runtime() is over.
\* input is the UI setting; output is the reporter task: where it is, the
\* seconds it has slept, and what its last round of printing did.
MaxReported == 1   \* seed jobs of a run that is watched by the reporter

RefreshRates == {10, 20}

\* Variant: the refresh rate alone sets the interval.
update_interval_unclamped(refresh_rate) == 60 \div refresh_rate

\* update_interval = max(5, 60 / refresh_rate)
update_interval(refresh_rate) == Max({5, 60 \div refresh_rate})

ReporterInit ==
    /\ NoRun
    /\ rt = "init"
    /\ input \in [refresh_rate : RefreshRates]
    /\ output = [pc |-> "delay", since |-> 0, rounds |-> 0, last |-> "none",
                 in_progress |-> 0, director |-> "try"]

\* the sleep the reporter is in: asyncio.sleep(2), then asyncio.sleep(update_interval)
SleepTime == IF output.pc = "delay" THEN 2 ELSE update_interval(input.refresh_rate)

\* a second passes while the reporter sleeps
ReporterTick ==
    /\ output.pc \in {"delay", "sleep"}
    /\ output.since < SleepTime
    /\ output' = [output EXCEPT !.since = @ + 1]
    /\ UNCHANGED <<rt, runVars, input>>

\* one round of the loop: the separator line, print_download_progress and
\* print_file_progress, which read the counters; an exception in either is
\* caught there and logged
periodic_progress_updates ==
    /\ ~RunEnded
    /\ output.pc \in {"delay", "sleep"}
    /\ output.since >= SleepTime
    /\ \E raises \in BOOLEAN :
          output' = [output EXCEPT !.pc = "sleep", !.since = 0, !.rounds = (@ + 1) % 2,
                                   !.last = IF raises THEN "caught" ELSE "printed",
                                   !.in_progress = InProgress]
    /\ UNCHANGED <<rt, runVars, input>>

\* the separator line cannot be printed: log_with_color raises outside any try
\* and the reporter task ends with the exception
ReporterFails ==
    /\ ~RunEnded
    /\ output.pc \in {"delay", "sleep"}
    /\ output.since >= SleepTime
    /\ output' = [output EXCEPT !.pc = "failed"]
    /\ UNCHANGED <<rt, runVars, input>>

\* director's finally: progress_task.cancel() once runtime() is over
ReporterCancelled ==
    /\ RunEnded
    /\ output.pc \in {"delay", "sleep"}
    /\ output' = [output EXCEPT !.pc = "cancelled"]
    /\ UNCHANGED <<rt, runVars, input>>

\* Variant: director goes on without awaiting the reporter task.
GoesOnUnawaited == FALSE

\* 'with contextlib.suppress(asyncio.CancelledError): await progress_task'
AwaitsReporter == TRUE

\* director after its finally: the post-download steps (129-147), or the error
\* exit (123-127) when runtime() or the awaited reporter task raised
director_after_run ==
    /\ RunEnded
    /\ output.director = "try"
    /\ AwaitsReporter => output.pc \in {"cancelled", "failed"}
    /\ output' = [output EXCEPT !.director =
                      IF rt = "raised" \/ output.pc = "failed" THEN "exit" ELSE "post"]
    /\ UNCHANGED <<rt, runVars, input>>

ReporterNext ==
    \/ Next /\ njobs' <= MaxReported
    \/ ReporterTick
    \/ periodic_progress_updates
    \/ ReporterFails
    \/ ReporterCancelled
    \/ director_after_run

ReporterSpec == ReporterInit /\ [][ReporterNext]_vars

\* the scheduler is fair to the tasks of the run; nothing is assumed of the
\* reporter
ReporterLiveSpec == ReporterSpec /\ WF_vars(Next /\ njobs' <= MaxReported)

\* ------------------------------------------------- requests and the limiter
\* The page requests of the handlers: input gives each calling task its
\* handler, output where each task is and the requests made so far, each with
\* whether its task was inside 'async with self.request_limiter'.
MaxCallers == 2

\* the handlers that make their request inside 'async with self.request_limiter'
LimitedHandlers == {"album", "video", "other", "reinforced_link"}

RequestInit ==
    /\ NoRun
    /\ rt = "requests"
    /\ input \in [1..MaxCallers -> LimitedHandlers \cup {"scrape"}]
    /\ output = [pc |-> [t \in 1..MaxCallers |-> "start"], requests |-> {}]

\* async with self.request_limiter: the task has acquired the limiter
enter_request_limiter(t) ==
    /\ output.pc[t] = "start"
    /\ input[t] \in LimitedHandlers
    /\ output' = [output EXCEPT !.pc[t] = "limited"]
    /\ UNCHANGED <<rt, runVars, input>>

\* client.get_BS4 in the Bunkrr handlers, client.get_json in scrape
client_get(t) ==
    /\ \/ output.pc[t] = "limited"
       \/ output.pc[t] = "start" /\ input[t] \notin LimitedHandlers
    /\ output' = [pc |-> [output.pc EXCEPT ![t] = "got"],
                  requests |-> output.requests \cup
                      {[task |-> t, handler |-> input[t], limited |-> output.pc[t] = "limited"]}]
    /\ UNCHANGED <<rt, runVars, input>>

RequestSpec ==
    RequestInit /\ [][\E t \in 1..MaxCallers : enter_request_limiter(t) \/ client_get(t)]_vars

\* ------------------------------------------------------- the cards of an album
\* The card loop of album on its own: input is the cards of the page in page
\* order, each a card without a link ("bare"), a card whose processing raises
\* ("raises"), a card whose link is in the results of an earlier run ("seen")
\* or a card with a new link ("link"); output is the loop's position and the
\* tasks created, in the order of their creation.
MaxAlbum == 3

\* get_album_results(album_id), 1606-1618: the list it returns is empty
get_album_results == <<>>

\* Variant: a card that was seen in an earlier run is skipped.
CardQueuedUnlessSeen(card) == card = "link"

\* 116-168: create_task is reached by a card with a link (116-118) that does
\* not raise (170-173) and is not skipped by 'if results and ...' (162-164),
\* whose results are those of get_album_results
CardQueued(card) ==
    \/ card = "link"
    \/ card = "seen" /\ get_album_results = <<>>

AlbumInit ==
    /\ NoRun
    /\ rt = "cards"
    /\ input \in UNION {[1..n -> {"bare", "raises", "seen", "link"}] : n \in 0..MaxAlbum}
    /\ output = [done |-> 0, created |-> <<>>]

\* one pass of 'for card_listing in card_listings'
card_listing ==
    /\ rt = "cards"
    /\ output.done < Len(input)
    /\ LET i == output.done + 1 IN
       output' = [done |-> i,
                  created |-> IF CardQueued(input[i])
                              THEN Append(output.created,
                                          [card |-> i, part_of_album |-> TRUE, new |-> TRUE])
                              ELSE output.created]
    /\ UNCHANGED <<rt, runVars, input>>

\* the loop is over
AlbumReturns ==
    /\ rt = "cards"
    /\ output.done = Len(input)
    /\ rt' = "returned"
    /\ UNCHANGED <<runVars, input, output>>

AlbumSpec == AlbumInit /\ [][card_listing \/ AlbumReturns]_vars

\* ------------------------------------------------------ the loop of director
\* director's 'while True': input is the all_configs argument and the list
\* get_configs() returned, configs numbered in their sort order; output is
\* configs_ran, the loaded config (0 for the one loaded at startup) and the
\* steps made so far, each the step and the config it was made for.
MaxConfigs == 3

\* Variant: the configs that have run are not taken out.
configs_to_run_all(configs, configs_ran) ==
    LET left == {configs[i] : i \in 1..Len(configs)} IN
    [k \in 1..Cardinality(left) |-> CHOOSE c \in left : Cardinality({d \in left : d <= c}) = k]

\* configs_to_run = list(set(configs) - set(configs_ran)); configs_to_run.sort()
configs_to_run(configs, configs_ran) ==
    LET left == {configs[i] : i \in 1..Len(configs)}
                    \ {configs_ran[i] : i \in 1..Len(configs_ran)}
    IN
    [k \in 1..Cardinality(left) |-> CHOOSE c \in left : Cardinality({d \in left : d <= c}) = k]

DirectorInit ==
    /\ NoRun
    /\ rt = "top"
    /\ input \in [all_configs : BOOLEAN,
                  configs : {q \in UNION {[1..n -> 1..MaxConfigs] : n \in 1..MaxConfigs} :
                                \A i, j \in 1..Len(q) : i # j => q[i] # q[j]}]
    /\ output = [configs_ran |-> <<>>, loaded |-> 0, steps |-> <<>>]

\* 76-104: with all_configs the first config that has not run is loaded
director_config ==
    /\ rt = "top"
    /\ Len(output.steps) < 2 * MaxConfigs + 2
    /\ IF input.all_configs
       THEN LET next == configs_to_run(input.configs, output.configs_ran)[1] IN
            output' = [output EXCEPT !.loaded = next, !.configs_ran = Append(@, next)]
       ELSE output' = output
    /\ rt' = "run"
    /\ UNCHANGED <<runVars, input>>

\* 107-127: runtime(manager)
director_runtime ==
    /\ rt = "run"
    /\ output' = [output EXCEPT !.steps = Append(@, <<"scrape", output.loaded>>)]
    /\ rt' = "post"
    /\ UNCHANGED <<runVars, input>>

\* 129-152: the post-download steps, then 'if not all_configs or not
\* list(set(configs) - set(configs_ran)): break'
director_post ==
    /\ rt = "post"
    /\ output' = [output EXCEPT !.steps = Append(@, <<"post", output.loaded>>)]
    /\ rt' = IF ~input.all_configs \/ configs_to_run(input.configs, output.configs_ran) = <<>>
             THEN "closing" ELSE "top"
    /\ UNCHANGED <<runVars, input>>

DirectorNext == director_config \/ director_runtime \/ director_post

DirectorSpec == DirectorInit /\ [][DirectorNext]_vars /\ WF_vars(DirectorNext)

\* ================================================================ properties
RunOver == rt \in {"returned", "raised"}

\* C1: runtime() has returned only when every task of the run has finished, the
\* scrape tasks that album() created after start() had returned and the download
\* tasks included.
C1_ReturnsAfterAllTasks ==
    rt = "returned" => \A t \in Ids : Finished(t) /\ DownloadFinished(t)

C1_Witness ==
    /\ rt = "returned"
    /\ \E a \in Ids : /\ tasks[a].kind = "album"
                      /\ \E c \in Ids : c > a /\ tasks[c].dpc = "done"

\* C2: when exactly one job of three raises one unclassified exception, the
\* other two jobs complete, runtime() does not raise and the failure counts
\* show exactly one Unknown failure.
C2_FailureIsolated ==
    ( /\ RunOver
      /\ Len(tasks) = 3
      /\ faults = 1 /\ unkRaised >= 1
      /\ \E a \in Ids : tasks[a].raised = 1 )
    => /\ rt = "returned"
       /\ \A t \in Ids : tasks[t].pc = "done"
       /\ scrapeFailures["Unknown"] = 1

\* C3: with finitely many seeds and cards and every request returning, the run
\* eventually returns.
C3_RunTerminates == <>(rt = "returned")

C3_Witness ==
    /\ rt = "returned"
    /\ njobs = MaxJobs
    /\ \E t \in Ids : tasks[t].http >= 1 /\ tasks[t].raised = 1

\* descriptors counted by the run: one per handle_file call, one per job the
\* referer check found complete
Descriptors ==
    Cardinality({t \in Ids : tasks[t].hf >= 1}) + Cardinality({t \in Ids : tasks[t].sc})

\* C4: when the run is over, completed + previously completed + skipped +
\* failed equals the total number of files, the number of descriptors the run
\* produced, and the In Progress figure is 0.
C4_CountsBalance ==
    RunOver => /\ dl.completed + dl.previously + dl.skipped + dl.failed = dl.total
               /\ InProgress = 0
               /\ dl.total = Descriptors

C4_Witness ==
    /\ rt = "returned"
    /\ dl.completed >= 1
    /\ dl.previously >= 1
    /\ dl.total >= 3

\* C5: every error raised while a job is processed increments the scrape
\* failure counters exactly once: a finished job has as many counted failures
\* as errors raised.
C5_OneCountPerError ==
    \A t \in Ids : Finished(t) => tasks[t].counted = tasks[t].raised

\* C6: a finished invocation of video, other or scrape has done exactly one of:
\* one handle_file call, the short-circuit as previously completed, one failure
\* counted.
C6_ExactlyOneOutcome ==
    \A t \in Ids :
        (Finished(t) /\ tasks[t].kind \in {"video", "other", "turbovid"})
        => tasks[t].hf + (IF tasks[t].sc THEN 1 ELSE 0) + tasks[t].counted = 1

\* C7: of the jobs of one run that resolve to the same resource, at most one
\* passes the referer check and reaches handle_file (no download having failed
\* or been skipped in between).
C7_NoDoubleSubmit ==
    (dl.failed = 0 /\ dl.skipped = 0)
    => \A a, b \in Ids :
          (a # b /\ tasks[a].res # 0 /\ tasks[a].res = tasks[b].res)
          => ~(tasks[a].hf >= 1 /\ tasks[b].hf >= 1)

\* C8: a job whose referer check found the resource complete has returned
\* having made no request, no handle_file call and no failure count.
C8_ShortCircuit ==
    \A t \in Ids :
        tasks[t].sc => /\ tasks[t].pc = "done"
                       /\ tasks[t].http = 0
                       /\ tasks[t].hf = 0
                       /\ tasks[t].counted = 0
                       /\ tasks[t].dpc = "none"

C8_Witness ==
    \E t, u \in Ids : /\ tasks[t].sc /\ tasks[t].kind = "other"
                      /\ tasks[u].sc /\ tasks[u].kind \in {"video", "turbovid"}

\* the failure kind the classification order assigns to exception e
ExpectedKind(e) ==
    CASE e.cls = "NoExtensionFailure" -> "No File Extension"
      [] e.cls = "PasswordProtected" -> "Password Protected"
      [] e.cls = "FailedLoginFailure" -> "Failed Login"
      [] e.cls = "InvalidContentTypeFailure" -> "Invalid Content Type"
      [] e.cls = "TimeoutError" -> "Timeout"
      [] e.cls = "Exception" /\ e.status # "none" -> e.status
      [] OTHER -> "Unknown"

\* C9: the wrapper gives every exception the kind of the first matching rule
\* (the four permanent failures, then Timeout, then the status, then Unknown)
\* and records exactly one failure, of that kind.
C9_ClassificationOrder ==
    /\ \A p \in classified :
          /\ p[2] = ExpectedKind(p[1])
          /\ scrapeFailures = [k \in FailureKinds |-> IF k = p[2] THEN 1 ELSE 0]
    /\ rt # "call" => Cardinality(classified) = 1

C9_Witness ==
    /\ rt = "returned"
    /\ \E p \in classified : p[1].cls = "FailedLoginFailure" /\ p[1].status = "404"

\* C10: every Unknown error a wrapper receives is logged with a traceback and
\* counted as Unknown, and none leaves the wrapper: no task ends with an
\* exception and runtime() does not raise.
C10_UnknownContained ==
    /\ scrapeFailures["Unknown"] = unkRaised
    /\ tracebacks = unkRaised
    /\ \A t \in Ids : tasks[t].pc # "crashed"
    /\ rt # "raised"

C10_Witness ==
    /\ unkRaised = 1
    /\ \E t \in Ids : tasks[t].counted = 1 /\ tasks[t].hf = 1 /\ tasks[t].dpc = "done"

PermanentClasses == {"NoExtensionFailure", "PasswordProtected", "FailedLoginFailure",
                     "InvalidContentTypeFailure"}

\* C11: a permanent failure is handled once, without the handler being run
\* again, and leaves an entry of the error log that carries the URL the wrapper
\* was called with and a readable reason.
C11_PermanentFailureLogged ==
    \A p \in classified :
        p[1].cls \in PermanentClasses
        => /\ scrapeFailures[p[2]] = 1
           /\ pending = <<>>
           /\ \E l \in logs : /\ l.log = "scrape_error"
                               /\ l.link = 0
                               /\ l.reason \in {" No File Extension", " Password Protected",
                                                 " Failed Login", " Invalid Content Type Received"}

\* C12: after an interrupt every task that was still running ends cancelled:
\* the wrapper counts no failure for the cancellation and lets no cancelled
\* task go on, and when runtime() has raised the cancellation no scrape or
\* download task is unfinished.
C12_CancellationStopsTasks ==
    /\ [](rt = "cancelled" => \A t \in Ids : Finished(t) /\ DownloadFinished(t))
    /\ [][rt = "cancelling"
            => /\ scrapeFailures' = scrapeFailures
               /\ store' = store
               /\ Len(tasks') = Len(tasks)
               /\ \A t \in Ids :
                     /\ tasks'[t].pc # tasks[t].pc => tasks'[t].pc = "cancelled"
                     /\ tasks'[t].dpc # tasks[t].dpc => tasks'[t].dpc = "cancelled"]_vars

C12_Witness ==
    /\ rt = "cancelled"
    /\ \E t, u \in Ids : /\ tasks[t].pc = "cancelled" /\ tasks[t].kind # "unset"
                          /\ tasks[u].dpc = "cancelled"

\* C13: under the strip-generated-ID policy the name with the generated id and
\* the name without it get the same stripped filename.
C13_SameCanonicalName ==
    (rt = "returned" /\ input.policy) => output.withId[2] = output.plain[2]

\* C13 as amended: for base names without '-', the name with the generated id
\* and the name without it get the same stripped filename.
C13_SameCanonicalNameNoHyphen ==
    (rt = "returned" /\ input.policy /\ ~Contains(input.b, <<"-">>))
    => output.withId[2] = output.plain[2]

C13_Witness ==
    /\ rt = "returned"
    /\ input.policy
    /\ input.b = <<"a", "a">>
    /\ output.withId[1] # output.plain[1]
    /\ output.withId[2] = <<"a", "a", ".", "j">>

\* C14: the limiter only delays: every task that asked for a slot eventually
\* has it, and no acquisition ends in a rejection.
C14_LimiterNeverDenies ==
    /\ <>(output.acquired = input)
    /\ [](output.rejected = 0)

C14_Witness ==
    /\ input = BurstSize
    /\ output.acquired = BurstSize
    /\ output.clock >= 1

\* C15: with AsyncLimiter(10, 1), at no time have more slots been given than the
\* burst of max_rate plus one per tick, so the 50th of 50 simultaneous
\* acquisitions completes no sooner than 4 seconds after the first.
C15_FiftySpreadOverFourSeconds ==
    /\ output.clock < MaxClock => output.acquired <= request_limiter.max_rate + output.clock
    /\ output.acquired >= 50
         => output.clock * request_limiter.time_period >= 4 * request_limiter.max_rate

C15_Witness ==
    /\ output.acquired = 50
    /\ output.clock * request_limiter.time_period = 4 * request_limiter.max_rate

\* C16: fetch and the handlers leave the url and the parent title of the item
\* they were given as they were, and the children of an album are new items.
C16_ItemNotMutated ==
    /\ output.item.url = input.url
    /\ output.item.parent_title = input.parent_title
    /\ \A c \in output.children : c # output.item

\* C17: every filename handed to handle_file has none of the characters
\* sanitize removes, and its base name has at most 95 characters.
C17_HandedFilenameSanitized ==
    rt = "handed" =>
        /\ \A i \in 1..Len(output.filename) : output.filename[i] \notin IllegalChars
        /\ Len(output.filename) <= MAX_NAME_LENGTHS.FILE + Len(output.ext)

\* C18: the title sanitize_folder returns has at most 60 characters.
C18_FolderLengthBounded == rt = "returned" => Len(output) <= MAX_NAME_LENGTHS.FOLDER

\* C19: after check_partials_and_empty_folders, with delete_partial_files set
\* no '*.part' file is left under the download directory, and with it unset
\* every file that was there, partial or not, is still there and the presence
\* of partial files is at most reported.
C19_PartialPolicyRespected ==
    rt = "returned" =>
        /\ input.delete_partial_files => PartFiles(output.tree) = {}
        /\ ~input.delete_partial_files =>
              /\ output.tree.files = input.tree.files
              /\ output.reported => PartFiles(input.tree) # {}
        /\ output.tree.files \ PartFiles(output.tree)
              = input.tree.files \ PartFiles(input.tree)

C19_Witness ==
    /\ rt = "returned"
    /\ input.delete_partial_files
    /\ Cardinality(PartFiles(input.tree)) = 2
    /\ PartFiles(output.tree) = {}
    /\ output.tree.files # {}

\* C20: the reporter only reads: none of its steps changes the run or a task,
\* whatever its printing does; its rounds after the first are at least 5
\* seconds apart; an exception of print_download_progress or
\* print_file_progress leaves the reporter running; and the run ends whether
\* or not the reporter ever takes a step.
C20_ReporterIndependent ==
    /\ [][output' # output => UNCHANGED <<rt, runVars>>]_vars
    /\ [][(output.pc = "sleep" /\ output'.rounds # output.rounds) => output.since >= 5]_vars
    /\ [][output'.last = "caught" /\ output.rounds # output'.rounds => output'.pc = "sleep"]_vars
    /\ <>RunEnded

C20_Witness ==
    /\ rt = "body"
    /\ output.pc = "sleep"
    /\ output.last = "caught"
    /\ output.in_progress = 1
    /\ output.since = 5

\* C21: every request of a handler is made while its task is inside the
\* crawler's request limiter.
C21_RequestsUnderLimit == \A r \in output.requests : r.limited

\* C22: after purge_dir no empty directory is left under the directory it was
\* given, the directories that held only empty directories included, and a
\* directory that holds a file is kept.
C22_NoEmptyDirectoryLeft ==
    (rt = "returned" /\ ~input.skip_check_for_empty_folders) =>
        /\ \A d \in output.tree.dirs \ {download_dir} : ListDir(output.tree, d) # {}
        /\ \A f \in output.tree.files : f[1] \in output.tree.dirs

\* the name has no usable extension: it is empty, has no dot, or has more than
\* 5 characters after its last dot
NoUsableExtension(name) ==
    \/ name = <<>>
    \/ ~Contains(name, <<".">>)
    \/ Len(name) - Len(RSplitHead(name, <<".">>)) - 1 > 5

\* C23 as stated: get_filename_and_ext raises NoExtensionFailure exactly for the
\* names without a usable extension.
C23_RaisesExactly ==
    rt # "call" => (rt = "raised" <=> NoUsableExtension(input.name))

\* C23, outside forum mode: get_filename_and_ext raises NoExtensionFailure
\* exactly for the names without a usable extension, and returns a filename and
\* an extension for every other name.
C23_RaisesExactlyUnlessForum ==
    (rt # "call" /\ ~input.forum) =>
        /\ rt = "raised" <=> NoUsableExtension(input.name)
        /\ rt = "returned" => output.ext # <<>>

C23_Witness ==
    /\ rt = "raised"
    /\ ~input.forum
    /\ input.name = <<".", "a", "a", "a", "a", "a", "a">>

\* C24: when fetch has ended, remove_task has been called exactly once for the
\* task that add_task added, and no scrape task is displayed any more.
C24_ProgressTaskRemoved ==
    rt = "returned" => output.removes = 1 /\ output.shown = 0

C24_Witness ==
    /\ rt = "returned"
    /\ input.crawler = "bunkrr"
    /\ input.url.host = "get.bunkr.su"
    /\ output.item.url = NoUrl
    /\ output.removes = 1

\* the cards of the album that are in Kinds, in page order
CardsOf(Kinds) == SelectSeq([i \in 1..Len(input) |-> i], LAMBDA i : input[i] \in Kinds)

C26_OneHandlerByPath ==
    (rt = "returned" /\ input.crawler = "bunkrr") =>
        LET url == output.item.url IN
        /\ output.calls = IF output.handler = "none" THEN 0 ELSE 1
        /\ output.handler =
              IF url = NoUrl \/ (url.dir = "" /\ url.name = "") THEN "none"
              ELSE IF url.dir = "a" \/ url.name = "a" THEN "album"
              ELSE IF url.dir = "v" THEN "video"
              ELSE "other"

C26_Witness ==
    /\ rt = "returned"
    /\ input.url = [host |-> "i-pizza.bunkr.ru", dir |-> "v", name |-> "a"]
    /\ output.handler = "album"
    /\ output.calls = 1

C29_RemoveIdCanonical ==
    rt = "returned" =>
        LET filename == input.b \o input.ext
            stripped == output.plain[2]
            tail == SubSeq(stripped, Len(stripped) - Len(input.ext) + 1, Len(stripped))
        IN /\ output.plain[1] = filename
           /\ input.policy => Len(stripped) >= Len(input.ext) /\ tail = input.ext
           /\ input.policy => output.again[2] = stripped
           /\ ~input.policy => stripped = filename

\* C30: get_stream_link returns a URL unchanged when its host's first label is
\* not a name of the CDN list or when it has no file extension; it returns the
\* primary domain's /v/<name> for a CDN URL with a video extension and /d/<name>
\* for a CDN URL with another extension; applied to its result it returns it
\* unchanged.
C30_StreamLinkOnlyCdn ==
    (rt = "returned" /\ input # NoUrl) =>
        LET listed == host_parts_0(input.host) \in cdn_domains IN
        /\ (~listed \/ Suffix(input) = "") => output.first = input
        /\ (listed /\ Suffix(input) # "") =>
              output.first = [host |-> primary_base_domain,
                              dir |-> IF Suffix(input) = ".mp4" THEN "v" ELSE "d",
                              name |-> input.name]
        /\ output.second = output.first

====
